---- MODULE Spec2Model ----
(***************************************************************************)
(* Booking slot-conflict validation, persistence and calendar mirror of    *)
(* the shiatsu booking site.                                               *)
(*                                                                         *)
(* Dates are day numbers, times are minutes after midnight, a datetime is  *)
(* date * 1440 + time (datetime.combine).  The server clock and the        *)
(* session times are read in one time zone, the project's default one      *)
(* (timezone.make_aware without a zone).                                   *)
(* duration_minutes = 0 stands for NULL: the code reads it through         *)
(* `duration_minutes or 60`, which treats NULL and 0 alike.                *)
(* An event id of 0 stands for NULL / None.                                *)
(***************************************************************************)
EXTENDS Integers, FiniteSets, Sequences, TLC

\* ------------------------------------------------------------------ bounds
\* Largest primary key the booking table hands out (bounds the inserts).
MaxPk == 3
\* Number of days the clock may advance.
MaxTicks == 1

\* ------------------------------------------------------- program constants
\* timedelta(hours=24): the advance notice.
AdvanceHours == 24
\* timedelta(minutes=30): the length of an admin slot.
AdminSlotMinutes == 30
\* `duration_minutes or 60`.
DefaultDuration == 60

DayMinutes == 24 * 60

\* -------------------------------------------------------------- catalogue
\* Category rows: 1 "Shiatsu Sessions", 2 "Gift Vouchers",
\* 3 "shiatsu sessions" (a second row whose name matches case-insensitively).
AllCategories == {1, 2, 3}
LowerName(c) == IF c = 2 THEN "gift vouchers" ELSE "shiatsu sessions"

\* Product rows: 1 a 60 minute session, 2 a 30 minute session, 3 a gift
\* voucher without duration, 4 an inactive 90 minute session.
AllProducts == {1, 2, 3, 4}
NoProduct == 0
category(p) == IF p = 3 THEN 2 ELSE 1
duration_minutes(p) == CASE p = 1 -> 60 [] p = 2 -> 30 [] p = 3 -> 0 [] OTHER -> 90
is_active(p) == p # 4

Users == {1, 2}
\* The logged-in user of the requests served one at a time.
Client == CHOOSE u \in Users : TRUE
\* Day 0 is yesterday at start, day 1 today, day 2 tomorrow.
Dates == 0..2
\* 14:00, 14:30 and 15:00.
Times == {14 * 60, 14 * 60 + 30, 15 * 60}
\* The clock at start: day 1, 14:15.
StartNow == DayMinutes + 14 * 60 + 15

\* Outcomes of the external calendar during one create_event call.
CalendarOutcomes == {"no_credentials", "admin_insert_failed", "inserted"}

\* ----------------------------------------------------------------- messages
PastDateMsg == "Session date cannot be in the past."
ProductRequiredMsg == "Product is required for booking."
NoCategoryMsg == "Shiatsu Sessions category does not exist."
AdvanceMsg == "Bookings must be made at least 24 hours in advance."
OverlapMsg == "Sorry, this time slot overlaps with another Shiatsu Session. Please choose another."
AdminConflictMsg == "This session conflicts with an Admin slot. Please choose another time."
AdminSlotSessionMsg == "Admin slot conflicts with an existing session. Please choose another time."
AlreadyBookedMsg == "Sorry, this time slot is already booked. Please choose another."
MultipleObjectsReturned == "MultipleObjectsReturned"
Valid == ""

VARIABLES
    users,        \* User rows (ids)
    categories,   \* Category rows (ids)
    products,     \* Product rows (ids)
    bookings,     \* Booking rows
    nextPk,       \* next primary key of the booking table
    now,          \* timezone.now(), in minutes
    requests,     \* the public booking requests in flight, per worker
    last          \* the response of the last request served in one piece

vars == <<users, categories, products, bookings, nextPk, now, requests, last>>

\* ------------------------------------------------------------- Booking rows
Booking(pk, product, user, d, t, admin) ==
    [pk |-> pk, product |-> product, user |-> user, session_date |-> d,
     session_time |-> t, is_admin_slot |-> admin, status |-> "pending",
     google_calendar_event_id |-> 0, admin_calendar_event_id |-> 0]

\* datetime.combine(date, time)
combine(d, t) == d * DayMinutes + t

\* `product.duration_minutes or 60`
duration_or_default(p) == IF duration_minutes(p) # 0 THEN duration_minutes(p) ELSE DefaultDuration

\* Mutant: only identical start times count as a conflict.
intersects_same_start(start, end, other_start, other_end) == start = other_start

\* start < other_end and end > other_start
intersects(start, end, other_start, other_end) == start < other_end /\ end > other_start

\* ForeignKey(Product), ForeignKey(User): the rows a booking refers to exist.
foreign_keys_hold(prods, us, b) == b.product \in prods /\ b.user \in us

\* UniqueConstraint(product, session_date, session_time, is_admin_slot):
\* would writing row b into table bk break it?
SameSlot(a, b) ==
    /\ a.product = b.product
    /\ a.session_date = b.session_date
    /\ a.session_time = b.session_time
    /\ a.is_admin_slot = b.is_admin_slot

\* Mutant: an exclusion constraint over the session's time range instead.
exclusion_constraint(bk, b) ==
    \A o \in bk :
        \/ o.pk = b.pk
        \/ o.session_date # b.session_date
        \/ o.is_admin_slot # b.is_admin_slot
        \/ ~(/\ o.session_time < b.session_time + duration_or_default(b.product)
              /\ b.session_time < o.session_time + duration_or_default(o.product))

\* Mutant: the constraint is missing from the table.
unique_booking_unchecked(bk, b) == TRUE

unique_booking_per_type_per_slot(bk, b) ==
    \A o \in bk : o.pk = b.pk \/ ~SameSlot(o, b)

\* ------------------------------------------------------ BookingForm (forms.py)
\* Category.objects.get(name__iexact='Shiatsu Sessions'): the matching rows.
shiatsu_category(cats) == {c \in cats : LowerName(c) = "shiatsu sessions"}

\* Mutant: the bookings of every product are scanned.
shiatsu_products_all(cats, prods) == prods

\* Product.objects.filter(category=shiatsu_category)
shiatsu_products(cats, prods) == {p \in prods : category(p) \in shiatsu_category(cats)}

\* Mutant: the field-level check is missing.
clean_session_date_missing(clock, d) == Valid

\* BookingForm.clean_session_date: the field-level check.
clean_session_date(clock, d) ==
    IF d < clock \div DayMinutes THEN PastDateMsg ELSE Valid

\* Mutant: the sessions of every date are compared with the candidate.
existing_sessions_any_date(bk, cats, prods, d, inst_pk) ==
    {o \in bk : /\ o.product \in shiatsu_products(cats, prods)
                /\ ~o.is_admin_slot
                /\ o.pk # inst_pk}

\* The session rows the candidate is compared with (the instance itself is
\* left out on an update; inst_pk = 0 for a new booking).
existing_sessions(bk, cats, prods, d, inst_pk) ==
    {o \in bk : /\ o.product \in shiatsu_products(cats, prods)
                /\ o.session_date = d
                /\ ~o.is_admin_slot
                /\ o.pk # inst_pk}

admin_bookings(bk, cats, prods, d) ==
    {o \in bk : /\ o.product \in shiatsu_products(cats, prods)
                /\ o.session_date = d
                /\ o.is_admin_slot}

session_bookings(bk, cats, prods, d) ==
    {o \in bk : /\ o.product \in shiatsu_products(cats, prods)
                /\ o.session_date = d
                /\ ~o.is_admin_slot}

\* Mutant: no advance notice is asked for.
earliest_start_now(clock) == clock

\* Mutant: two days of notice are asked for.
earliest_start_two_days(clock) == clock + 2 * AdvanceHours * 60

\* The instant before which a session is refused: now + 24 hours.
earliest_start(clock) == clock + AdvanceHours * 60

\* Does the candidate [start, end) intersect a session row of `others`?
overlaps_session(others, start, end) ==
    \E o \in others :
        intersects(start, end,
                   combine(o.session_date, o.session_time),
                   combine(o.session_date, o.session_time) + duration_or_default(o.product))

\* Mutant: admin rows are not looked at.
overlaps_admin_ignored(admins, start, end) == FALSE

\* Does the candidate [start, end) intersect the 30 minutes of an admin row?
overlaps_admin(admins, start, end) ==
    \E a \in admins :
        intersects(start, end,
                   combine(a.session_date, a.session_time),
                   combine(a.session_date, a.session_time) + AdminSlotMinutes)

\* BookingForm.clean: the first error raised, or Valid.  `product` is the
\* product handed to the form (NoProduct when the caller passes none).
clean(bk, cats, prods, clock, product, d, t, inst_pk, inst_admin) ==
    LET session_start == combine(d, t)
        session_end   == session_start + duration_or_default(product)
    IN  IF product = NoProduct THEN ProductRequiredMsg
        ELSE IF shiatsu_category(cats) = {} THEN NoCategoryMsg
        ELSE IF Cardinality(shiatsu_category(cats)) > 1 THEN MultipleObjectsReturned
        ELSE IF session_start < earliest_start(clock) THEN AdvanceMsg
        ELSE IF overlaps_session(existing_sessions(bk, cats, prods, d, inst_pk),
                                 session_start, session_end) THEN OverlapMsg
        ELSE IF overlaps_admin(admin_bookings(bk, cats, prods, d),
                               session_start, session_end) THEN AdminConflictMsg
        ELSE IF inst_admin /\ overlaps_session(session_bookings(bk, cats, prods, d),
                                               session_start, session_start + AdminSlotMinutes)
             THEN AdminSlotSessionMsg
        ELSE Valid

\* Mutant: the form is saved without being validated.
form_errors_skipped(bk, cats, prods, clock, product, d, t, inst_pk, inst_admin) == Valid

\* form.is_valid(): the field check, then clean() when the date survived it.
form_errors(bk, cats, prods, clock, product, d, t, inst_pk, inst_admin) ==
    IF clean_session_date(clock, d) # Valid THEN clean_session_date(clock, d)
    ELSE clean(bk, cats, prods, clock, product, d, t, inst_pk, inst_admin)

\* ------------------------------------------------- calendar mirror (services.py)
\* The ids the external calendar hands out for the session event and the
\* admin event of a booking (opaque, fresh per booking).
session_event_id(b) == 2 * b.pk - 1
admin_event_id(b) == 2 * b.pk

\* The synthetic admin-slot row: it starts where the session ends.
admin_slot_row(pk, b) ==
    LET admin_start == combine(b.session_date, b.session_time) + duration_or_default(b.product)
    IN  Booking(pk, b.product, b.user, admin_start \div DayMinutes, admin_start % DayMinutes, TRUE)

\* Mutant: the instance in memory is saved whole, its status included.
store_event_ids_full_save(bk, b) ==
    {IF o.pk = b.pk
        THEN [b EXCEPT !.google_calendar_event_id = session_event_id(b),
                       !.admin_calendar_event_id = admin_event_id(b)]
        ELSE o : o \in bk}

\* booking.save(update_fields=[...event ids...])
store_event_ids(bk, b) ==
    {IF o.pk = b.pk
        THEN [o EXCEPT !.google_calendar_event_id = session_event_id(b),
                       !.admin_calendar_event_id = admin_event_id(b)]
        ELSE o : o \in bk}

\* Mutant: the calendar calls are made without a service.
authenticate_always(cal) == TRUE

\* GoogleCalendarService.authenticate: is there a service afterwards?  None
\* when service-account-key.json is absent or the credentials are refused.
authenticate(cal) == cal # "no_credentials"

\* Mutant: admin-slot rows are synchronised like sessions.
skip_admin_slot_never(instance) == FALSE

\* `getattr(instance, 'is_admin_slot', False)`: the test that ends the
\* post_save handler and create_event at once for an admin-slot row.
skip_admin_slot(instance) == instance.is_admin_slot

\* GoogleCalendarService.create_event: the table, the next key, the
\* returned event id (0 for None) and the events it has inserted in the
\* external calendar.  Every exception ends in `return None`.
\* The two saves it makes fire post_save again: for the booking with
\* created=False and its event id set (update_event, an external call only),
\* and for the admin-slot row, for which the handler returns at once.
create_event(bk, np, b, cal) ==
    LET none == [bookings |-> bk, nextPk |-> np, event_id |-> 0, events |-> {}]
        stored == store_event_ids(bk, b)
        slot == admin_slot_row(np, b)
        session_event == [summary |-> "Shiatsu Session", id |-> session_event_id(b)]
        admin_event == [summary |-> "Admin", id |-> admin_event_id(b)]
    IN  IF ~authenticate(cal) THEN none
        ELSE IF skip_admin_slot(b) THEN none
        \* the second events().insert(...).execute() raises, after the first
        \* one has put the session event in the calendar
        ELSE IF cal = "admin_insert_failed" THEN [none EXCEPT !.events = {session_event}]
        \* save(update_fields=...) of a row that is gone raises DatabaseError
        ELSE IF ~(\E o \in bk : o.pk = b.pk)
             THEN [none EXCEPT !.events = {session_event, admin_event}]
        \* the buffer row breaks the uniqueness constraint: IntegrityError
        ELSE IF ~unique_booking_per_type_per_slot(stored, slot)
             THEN [bookings |-> stored, nextPk |-> np, event_id |-> 0,
                   events |-> {session_event, admin_event}]
        ELSE [bookings |-> stored \cup {slot}, nextPk |-> np + 1,
              event_id |-> session_event_id(b),
              events |-> {session_event, admin_event}]

\* Mutant: the handler has no try/except, a failed calendar call is raised
\* to the caller of save().
create_or_update_calendar_event_unguarded(bk, np, instance, created, cal) ==
    LET made == create_event(bk, np, instance, cal)
    IN  [bookings |-> made.bookings, nextPk |-> made.nextPk, raised |-> made.event_id = 0,
         events |-> made.events]

\* Mutant: every save of a session calls create_event, whether or not the
\* booking already has its calendar event.
create_or_update_calendar_event_always(bk, np, instance, created, cal) ==
    LET made == create_event(bk, np, instance, cal)
    IN  [bookings |-> made.bookings, nextPk |-> made.nextPk, raised |-> FALSE,
         events |-> made.events]

\* signals.create_or_update_calendar_event (post_save of Booking): the
\* table, the next key, whether an exception leaves the handler (the
\* try/except around its body lets none out) and the events inserted in
\* the external calendar.
create_or_update_calendar_event(bk, np, instance, created, cal) ==
    LET unchanged == [bookings |-> bk, nextPk |-> np, raised |-> FALSE, events |-> {}]
        made == create_event(bk, np, instance, cal)
        updated == {IF o.pk = instance.pk
                       THEN [o EXCEPT !.google_calendar_event_id = made.event_id]
                       ELSE o : o \in made.bookings}
    IN  IF skip_admin_slot(instance) THEN unchanged
        ELSE IF created \/ instance.google_calendar_event_id = 0
             THEN IF made.event_id # 0
                     THEN [bookings |-> updated, nextPk |-> made.nextPk, raised |-> FALSE,
                           events |-> made.events]
                     ELSE [bookings |-> made.bookings, nextPk |-> made.nextPk, raised |-> FALSE,
                           events |-> made.events]
        \* update_event: an external call only
        ELSE unchanged

\* --------------------------------------------------- public view (views.py)
\* Mutant: the view has no `except IntegrityError`.
integrity_unhandled == [code |-> 500, msg |-> "IntegrityError"]

\* product_detail, `except IntegrityError`: the error is put on the form and
\* the form is rendered again.
integrity_response == [code |-> 200, msg |-> AlreadyBookedMsg]

\* product_detail, POST, served in one piece: the response and the table.
product_detail(bk, np, cats, prods, clock, pk, user, d, t, cal) ==
    LET errors == form_errors(bk, cats, prods, clock, pk, d, t, 0, FALSE)
        booking == Booking(np, pk, user, d, t, FALSE)
        synced == create_or_update_calendar_event(bk \cup {booking}, np + 1, booking, TRUE, cal)
        same(code, msg) == [code |-> code, msg |-> msg, bookings |-> bk, nextPk |-> np]
    IN  IF ~(pk \in prods /\ is_active(pk)) THEN same(404, Valid)
        ELSE IF errors = MultipleObjectsReturned THEN same(500, errors)
        ELSE IF errors # Valid THEN same(200, errors)
        ELSE IF ~unique_booking_per_type_per_slot(bk, booking)
             THEN same(integrity_response.code, integrity_response.msg)
        \* an exception out of booking.save() other than IntegrityError
        ELSE IF synced.raised
             THEN [code |-> 500, msg |-> Valid, bookings |-> synced.bookings, nextPk |-> synced.nextPk]
        ELSE [code |-> 302, msg |-> Valid, bookings |-> synced.bookings, nextPk |-> synced.nextPk]

\* ------------------------------------------------------------------- states
Idle == [pc |-> "idle", product |-> NoProduct, user |-> 0, session_date |-> 0,
         session_time |-> 0, code |-> 0, msg |-> Valid, pk |-> 0, raced |-> FALSE]
Workers == {1, 2}
NoResponse == [code |-> 0, msg |-> Valid]

\* The catalogue a deployment starts with: the seeded categories, the
\* seeded categories without 'Shiatsu Sessions', or with a second category
\* of that name.  Products exist with their category (on_delete=CASCADE).
Init ==
    /\ users = Users
    /\ categories \in {{1, 2}, {2}, {1, 2, 3}}
    /\ products = {p \in AllProducts : category(p) \in categories}
    /\ bookings = {}
    /\ nextPk = 1
    /\ now = StartNow
    /\ requests = [w \in Workers |-> Idle]
    /\ last = NoResponse

\* A day passes.
Tick ==
    /\ now < StartNow + MaxTicks * DayMinutes
    /\ now' = now + DayMinutes
    /\ UNCHANGED <<users, categories, products, bookings, nextPk, requests, last>>

\* POST to the public booking view, served with no other request in flight.
\* The calendar is reached only from the post_save handler of a saved row.
Book(pk, user, d, t) ==
    LET calls == IF product_detail(bookings, nextPk, categories, products, now, pk, user, d, t,
                                   "no_credentials").code = 302
                    THEN CalendarOutcomes ELSE {"no_credentials"}
    IN  \E cal \in calls :
          LET r == product_detail(bookings, nextPk, categories, products, now, pk, user, d, t, cal)
          IN  /\ user \in users
              /\ r.nextPk <= MaxPk + 1
              /\ bookings' = r.bookings
              /\ nextPk' = r.nextPk
              /\ last' = [code |-> r.code, msg |-> r.msg]
              /\ UNCHANGED <<users, categories, products, now, requests>>


\* ------------------------------------------------ requests served concurrently
\* The dates the concurrent requests and the back-office name.
RaceDates == {2}

InFlight(w) == requests[w].pc \in {"save", "signal"}

\* product_detail up to form.is_valid(): get_object_or_404, then the form's
\* checks against the table as it is now.
Submit(w, pk, d, t) ==
    LET errors == form_errors(bookings, categories, products, now, pk, d, t, 0, FALSE)
        req == [Idle EXCEPT !.product = pk, !.user = Client, !.session_date = d,
                            !.session_time = t,
                            !.raced = \E o \in Workers \ {w} : InFlight(o)]
    IN  /\ requests[w].pc = "idle"
        /\ Client \in users
        /\ requests' =
             [o \in Workers |->
                IF o = w
                   THEN IF ~(pk \in products /\ is_active(pk))
                           THEN [req EXCEPT !.pc = "done", !.code = 404]
                        ELSE IF errors = MultipleObjectsReturned
                           THEN [req EXCEPT !.pc = "done", !.code = 500, !.msg = errors]
                        ELSE IF errors # Valid
                           THEN [req EXCEPT !.pc = "done", !.code = 200, !.msg = errors]
                        ELSE [req EXCEPT !.pc = "save"]
                ELSE IF InFlight(o) /\ pk \in products /\ is_active(pk)
                   THEN [requests[o] EXCEPT !.raced = TRUE]
                ELSE requests[o]]
        /\ UNCHANGED <<users, categories, products, bookings, nextPk, now, last>>

\* product_detail, booking.save(): the INSERT under the uniqueness and the
\* foreign key constraints; IntegrityError is caught and shown on the form.
Save(w) ==
    LET req == requests[w]
        booking == Booking(nextPk, req.product, req.user, req.session_date,
                           req.session_time, FALSE)
    IN  /\ req.pc = "save"
        /\ IF /\ unique_booking_per_type_per_slot(bookings, booking)
              /\ foreign_keys_hold(products, users, booking)
              THEN /\ nextPk <= MaxPk
                   /\ bookings' = bookings \cup {booking}
                   /\ nextPk' = nextPk + 1
                   /\ requests' = [requests EXCEPT ![w].pc = "signal", ![w].pk = booking.pk]
              ELSE /\ requests' = [requests EXCEPT ![w].pc = "done",
                                                   ![w].code = integrity_response.code,
                                                   ![w].msg = integrity_response.msg]
                   /\ UNCHANGED <<bookings, nextPk>>
        /\ UNCHANGED <<users, categories, products, now, last>>

\* The post_save handler of the row just inserted, then the redirect.
Signal(w, cal) ==
    LET req == requests[w]
        instance == Booking(req.pk, req.product, req.user, req.session_date,
                            req.session_time, FALSE)
        synced == create_or_update_calendar_event(bookings, nextPk, instance, TRUE, cal)
    IN  /\ req.pc = "signal"
        /\ synced.nextPk <= MaxPk + 1
        /\ bookings' = synced.bookings
        /\ nextPk' = synced.nextPk
        /\ requests' = [requests EXCEPT ![w].pc = "done",
                                         ![w].code = IF synced.raised THEN 500 ELSE 302]
        /\ UNCHANGED <<users, categories, products, now, last>>

\* ------------------------------------------------- account views (accounts/views.py)
\* edit_booking, POST: the form is built without a product.
edit_booking(user, pk, d, t) ==
    LET found == {b \in bookings : b.pk = pk /\ b.user = user}
        booking == CHOOSE b \in found : TRUE
        errors == form_errors(bookings, categories, products, now, NoProduct, d, t,
                              booking.pk, booking.is_admin_slot)
        saved == [booking EXCEPT !.session_date = d, !.session_time = t]
        written == (bookings \ {booking}) \cup {saved}
    IN  /\ user \in users
        /\ IF found = {}
              THEN /\ last' = [code |-> 404, msg |-> Valid]
                   /\ UNCHANGED <<bookings, nextPk>>
           ELSE IF errors # Valid
              THEN /\ last' = [code |-> 200, msg |-> errors]
                   /\ UNCHANGED <<bookings, nextPk>>
           ELSE IF ~unique_booking_per_type_per_slot(bookings, saved)
              THEN /\ last' = [code |-> 500, msg |-> "IntegrityError"]
                   /\ UNCHANGED <<bookings, nextPk>>
           ELSE \E cal \in CalendarOutcomes :
                  LET synced == create_or_update_calendar_event(written, nextPk, saved, FALSE, cal)
                  IN  /\ synced.nextPk <= MaxPk + 1
                      /\ last' = [code |-> 302, msg |-> Valid]
                      /\ bookings' = synced.bookings
                      /\ nextPk' = synced.nextPk
        /\ UNCHANGED <<users, categories, products, now, requests>>

\* Mutant: the booking is looked up by its key alone, not by its owner.
cancel_booking_any_owner(user, pk) ==
    LET found == {b \in bookings : b.pk = pk}
    IN  /\ user \in users
        /\ IF found = {}
              THEN /\ last' = [code |-> 404, msg |-> Valid]
                   /\ UNCHANGED bookings
              ELSE /\ last' = [code |-> 302, msg |-> Valid]
                   /\ bookings' = bookings \ found
        /\ UNCHANGED <<users, categories, products, nextPk, now, requests>>

\* cancel_booking, POST: the row is deleted (post_delete only calls the
\* external calendar).
cancel_booking(user, pk) ==
    LET found == {b \in bookings : b.pk = pk /\ b.user = user}
    IN  /\ user \in users
        /\ IF found = {}
              THEN /\ last' = [code |-> 404, msg |-> Valid]
                   /\ UNCHANGED bookings
              ELSE /\ last' = [code |-> 302, msg |-> Valid]
                   /\ bookings' = bookings \ found
        /\ UNCHANGED <<users, categories, products, nextPk, now, requests>>

\* ------------------------------------------------------ back-office (admin.py)
AdminExistsMsg == "A booking already exists for this date and time. Please choose another slot."

\* Mutant: save_model has no `except IntegrityError`.
admin_integrity_unhandled == [code |-> 500, msg |-> "IntegrityError"]

\* BookingAdmin.save_model, `except IntegrityError`: message_user(...,
\* level=messages.ERROR) and a normal return.
admin_integrity_response == [code |-> 200, msg |-> AdminExistsMsg]

\* BookingAdmin.save_model: the row is written unless the uniqueness
\* constraint refuses it; the refusal becomes a message.
save_model(obj, change) ==
    LET written == {b \in bookings : b.pk # obj.pk} \cup {obj}
    IN  /\ IF unique_booking_per_type_per_slot(bookings, obj)
              THEN \E cal \in CalendarOutcomes :
                     LET synced == create_or_update_calendar_event(
                                       written, IF change THEN nextPk ELSE nextPk + 1,
                                       obj, ~change, cal)
                     IN  /\ synced.nextPk <= MaxPk + 1
                         /\ bookings' = synced.bookings
                         /\ nextPk' = synced.nextPk
                         /\ last' = [code |-> 302, msg |-> Valid]
              ELSE /\ last' = admin_integrity_response
                   /\ UNCHANGED <<bookings, nextPk>>
        /\ UNCHANGED <<users, categories, products, now, requests>>

AdminAdd(pk, d, t, admin) ==
    /\ pk \in products
    /\ Client \in users
    /\ save_model(Booking(nextPk, pk, Client, d, t, admin), FALSE)

AdminChange(b, d, t) ==
    /\ b \in bookings
    /\ save_model([b EXCEPT !.session_date = d, !.session_time = t], TRUE)

\* Public booking requests and edits served one at a time, while days pass.
SeqNext ==
    \/ \E pk \in AllProducts, d \in Dates, t \in Times : Book(pk, Client, d, t)
    \/ \E pk \in 1..MaxPk, d \in Dates, t \in Times : edit_booking(Client, pk, d, t)
    \/ Tick

SpecSeq == Init /\ [][SeqNext]_vars

\* Two workers serve one public booking request each, while the owner edits
\* and cancels bookings.
Next ==
    \/ \E w \in Workers, pk \in AllProducts, d \in RaceDates, t \in Times : Submit(w, pk, d, t)
    \/ \E w \in Workers : Save(w)
    \/ \E w \in Workers, cal \in CalendarOutcomes : Signal(w, cal)
    \/ \E pk \in 1..MaxPk, d \in RaceDates, t \in Times : edit_booking(Client, pk, d, t)
    \/ \E pk \in 1..MaxPk : cancel_booking(Client, pk)

Spec == Init /\ [][Next]_vars

\* Every writer of the booking table at once: the two workers, the owner and
\* the back-office, which works on one product and one time of day.
BackOfficeProducts == {2}
BackOfficeTimes == {15 * 60}
AccountTimes == {14 * 60 + 30, 15 * 60}

AllNext ==
    \/ \E w \in Workers, pk \in BackOfficeProducts, d \in RaceDates, t \in Times :
           Submit(w, pk, d, t)
    \/ \E w \in Workers : Save(w)
    \/ \E w \in Workers, cal \in CalendarOutcomes : Signal(w, cal)
    \/ \E pk \in 1..MaxPk, d \in RaceDates, t \in Times : edit_booking(Client, pk, d, t)
    \/ \E pk \in 1..MaxPk : cancel_booking(Client, pk)
    \/ \E pk \in BackOfficeProducts, d \in RaceDates, t \in BackOfficeTimes, admin \in BOOLEAN :
           AdminAdd(pk, d, t, admin)
    \/ \E b \in bookings, d \in RaceDates, t \in BackOfficeTimes : AdminChange(b, d, t)

SpecAll == Init /\ [][AllNext]_vars

\* The back-office alone adds and moves rows between two times of day, half
\* an hour apart, while the owner cancels bookings.
BackNext ==
    \/ \E pk \in BackOfficeProducts, d \in RaceDates, t \in AccountTimes, admin \in BOOLEAN :
           AdminAdd(pk, d, t, admin)
    \/ \E b \in bookings, d \in RaceDates, t \in AccountTimes : AdminChange(b, d, t)
    \/ \E pk \in 1..MaxPk : cancel_booking(Client, pk)

SpecBack == Init /\ [][BackNext]_vars

\* ------------------------------------------- back-office bulk actions (admin.py)
\* request.user of a back-office request.
Principals == [is_staff : BOOLEAN, is_superuser : BOOLEAN]

\* Mutant: superusers who are not staff are turned away.
is_privileged_staff_only(principal) == principal.is_staff

\* `request.user.is_staff or request.user.is_superuser`
is_privileged(principal) == principal.is_staff \/ principal.is_superuser

\* Mutant: a guarded workflow, only pending bookings change status.
update_pending_only(bk, queryset, status) ==
    {IF b.pk \in queryset /\ b.status = "pending" THEN [b EXCEPT !.status = status] ELSE b :
        b \in bk}

\* queryset.update(status=...): one UPDATE, no save() and no post_save.
\* A queryset is the set of the primary keys it selects.
update(bk, queryset, status) ==
    {IF b.pk \in queryset THEN [b EXCEPT !.status = status] ELSE b : b \in bk}

\* self.message_user(...): the response of a bulk action (the count of rows
\* in the message is left out).
message_user(principal, msg) == [code |-> 200, msg |-> msg, user |-> principal]

approve_bookings(principal, queryset) ==
    /\ IF ~is_privileged(principal)
          THEN /\ last' = message_user(principal, "You do not have permission to approve bookings.")
               /\ UNCHANGED bookings
          ELSE /\ bookings' = update(bookings, queryset, "approved")
               /\ last' = message_user(principal, "booking(s) marked as approved.")
    /\ UNCHANGED <<users, categories, products, nextPk, now, requests>>

\* Mutant: the deny action asks for the same privilege as the others.
deny_bookings_guarded(principal, queryset) ==
    /\ IF ~is_privileged(principal)
          THEN /\ last' = message_user(principal, "You do not have permission to deny bookings.")
               /\ UNCHANGED bookings
          ELSE /\ bookings' = update(bookings, queryset, "denied")
               /\ last' = message_user(principal, "booking(s) marked as denied.")
    /\ UNCHANGED <<users, categories, products, nextPk, now, requests>>

deny_bookings(principal, queryset) ==
    /\ bookings' = update(bookings, queryset, "denied")
    /\ last' = message_user(principal, "booking(s) marked as denied.")
    /\ UNCHANGED <<users, categories, products, nextPk, now, requests>>

mark_reschedule(principal, queryset) ==
    /\ IF ~is_privileged(principal)
          THEN /\ last' = message_user(principal, "You do not have permission to reschedule bookings.")
               /\ UNCHANGED bookings
          ELSE /\ bookings' = update(bookings, queryset, "reschedule")
               /\ last' = message_user(principal, "booking(s) marked as reschedule.")
    /\ UNCHANGED <<users, categories, products, nextPk, now, requests>>

mark_refund(principal, queryset) ==
    /\ IF ~is_privileged(principal)
          THEN /\ last' = message_user(principal, "You do not have permission to refund bookings.")
               /\ UNCHANGED bookings
          ELSE /\ bookings' = update(bookings, queryset, "refund")
               /\ last' = message_user(principal, "booking(s) marked as refund.")
    /\ UNCHANGED <<users, categories, products, nextPk, now, requests>>

\* The change view with another status chosen: save_model with change=True.
AdminChangeStatus(b, status) ==
    /\ b \in bookings
    /\ save_model([b EXCEPT !.status = status], TRUE)

\* The changelist selections: any set of rows of the table.
Querysets == SUBSET {b.pk : b \in bookings}

\* The back-office alone: rows are added, then selected for the bulk actions.
OfficeNext ==
    \/ \E pk \in BackOfficeProducts, d \in RaceDates, t \in BackOfficeTimes :
           AdminAdd(pk, d, t, FALSE)
    \/ \E principal \in Principals, queryset \in Querysets : approve_bookings(principal, queryset)
    \/ \E principal \in Principals, queryset \in Querysets : deny_bookings(principal, queryset)
    \/ \E principal \in Principals, queryset \in Querysets : mark_reschedule(principal, queryset)
    \/ \E principal \in Principals, queryset \in Querysets : mark_refund(principal, queryset)
    \/ \E b \in bookings : AdminChangeStatus(b, "refunded")

SpecOffice == Init /\ [][OfficeNext]_vars

\* Public bookings split at their save and their post_save hook, and edits,
\* while the back-office approves selections of bookings.
StatusNext ==
    \/ \E w \in Workers, pk \in BackOfficeProducts, d \in RaceDates, t \in AccountTimes :
           Submit(w, pk, d, t)
    \/ \E w \in Workers : Save(w)
    \/ \E w \in Workers, cal \in CalendarOutcomes : Signal(w, cal)
    \/ \E pk \in 1..MaxPk, d \in RaceDates, t \in AccountTimes : edit_booking(Client, pk, d, t)
    \/ \E principal \in Principals, queryset \in Querysets : approve_bookings(principal, queryset)

SpecStatus == Init /\ [][StatusNext]_vars

\* ------------------------------------------------- deletions (models.py)
\* Mutant: the rows that refer to a deleted row are left behind.
cascade_nothing(bk, prods, us) == bk

\* on_delete=CASCADE of Booking.product and Booking.user: the bookings that
\* survive when only the products prods and the users us remain.
cascade(bk, prods, us) == {b \in bk : b.product \in prods /\ b.user \in us}

\* Product.delete(): the product and, by cascade, its bookings.
delete_product(p) ==
    /\ p \in products
    /\ products' = products \ {p}
    /\ bookings' = cascade(bookings, products', users)
    /\ UNCHANGED <<users, categories, nextPk, now, requests, last>>

\* User.delete(): the user and, by cascade, the user's bookings.
delete_user(u) ==
    /\ u \in users
    /\ users' = users \ {u}
    /\ bookings' = cascade(bookings, products, users')
    /\ UNCHANGED <<categories, products, nextPk, now, requests, last>>

\* Category.delete(): the category, by cascade its products, and by cascade
\* their bookings.
delete_category(c) ==
    /\ c \in categories
    /\ categories' = categories \ {c}
    /\ products' = {p \in products : category(p) \in categories'}
    /\ bookings' = cascade(bookings, products', users)
    /\ UNCHANGED <<users, nextPk, now, requests, last>>

\* ------------------------------------------- owner-only routes, GET (views.py)
\* get_object_or_404(Booking, pk=pk, user=request.user), then a page.
owned_page(user, pk) ==
    /\ user \in users
    /\ last' = IF \E b \in bookings : b.pk = pk /\ b.user = user
                  THEN [code |-> 200, msg |-> Valid]
                  ELSE [code |-> 404, msg |-> Valid]
    /\ UNCHANGED <<users, categories, products, bookings, nextPk, now, requests>>

\* booking_confirmation (GET; a POST is served the same way)
booking_confirmation(user, pk) == owned_page(user, pk)
\* edit_booking, GET: the form bound to the booking
edit_booking_form(user, pk) == owned_page(user, pk)
\* cancel_booking, GET: the confirmation page
cancel_booking_page(user, pk) == owned_page(user, pk)

\* The times of day the account holders name.

\* Bookings are made by two users, one request at a time and one request
\* split at its save, while products, users and categories are deleted.
CascadeNext ==
    \/ \E pk \in AllProducts, u \in Users, d \in RaceDates, t \in BackOfficeTimes : Book(pk, u, d, t)
    \/ \E pk \in BackOfficeProducts, d \in RaceDates, t \in BackOfficeTimes : Submit(1, pk, d, t)
    \/ \E w \in Workers : Save(w)
    \/ \E w \in Workers, cal \in CalendarOutcomes : Signal(w, cal)
    \/ \E p \in AllProducts : delete_product(p)
    \/ \E u \in Users : delete_user(u)
    \/ \E c \in AllCategories : delete_category(c)

SpecCascade == Init /\ [][CascadeNext]_vars

\* Two account holders book, look at, edit and cancel bookings, one request
\* at a time.
OwnerNext ==
    \/ \E pk \in BackOfficeProducts, u \in Users, d \in RaceDates, t \in AccountTimes : Book(pk, u, d, t)
    \/ \E u \in Users, pk \in 1..MaxPk, d \in RaceDates, t \in BackOfficeTimes : edit_booking(u, pk, d, t)
    \/ \E u \in Users, pk \in 1..MaxPk : edit_booking_form(u, pk)
    \/ \E u \in Users, pk \in 1..MaxPk : cancel_booking(u, pk)
    \/ \E u \in Users, pk \in 1..MaxPk : cancel_booking_page(u, pk)
    \/ \E u \in Users, pk \in 1..MaxPk : booking_confirmation(u, pk)

SpecOwner == Init /\ [][OwnerNext]_vars

\* Public bookings served one at a time and cancellations, at times of day
\* that let a session start where the buffer of an earlier one starts or ends.
BufferTimes == {14 * 60 + 30, 15 * 60, 15 * 60 + 30}

\* A 60 minute Shiatsu session and the gift voucher.
BufferProducts == {1, 3}

BufferNext ==
    \/ \E pk \in BufferProducts, d \in RaceDates, t \in BufferTimes : Book(pk, Client, d, t)
    \/ \E pk \in 1..MaxPk : cancel_booking(Client, pk)

SpecBuffer == Init /\ [][BufferNext]_vars

\* ------------------------------------------------ the form alone (forms.py)
\* BookingForm(data, product=product, instance=instance).is_valid(): the
\* verdict of the form for a product and an instance, a row of the table or
\* a row not yet saved (key 0) that is or is not an admin slot.  Nothing is
\* written and no response is made.
is_valid(pk, inst_pk, inst_admin, d, t) ==
    /\ pk \in products
    /\ inst_pk = 0 \/ \E b \in bookings : b.pk = inst_pk /\ b.is_admin_slot = inst_admin
    /\ last' = [code |-> 0,
                msg |-> form_errors(bookings, categories, products, now, pk, d, t,
                                    inst_pk, inst_admin)]
    /\ UNCHANGED <<users, categories, products, bookings, nextPk, now, requests>>

\* The 60 minute and the 30 minute Shiatsu session.
FormProducts == {1, 2}

\* Public bookings served one at a time fill the table, and the form is
\* asked for its verdict on candidates for every kind of instance.
FormNext ==
    \/ \E pk \in FormProducts, d \in RaceDates, t \in BufferTimes : Book(pk, Client, d, t)
    \/ \E pk \in FormProducts, inst_pk \in 0..MaxPk, inst_admin \in BOOLEAN,
          d \in RaceDates, t \in BufferTimes : is_valid(pk, inst_pk, inst_admin, d, t)

SpecForm == Init /\ [][FormNext]_vars

\* Days 2 and 3, at 00:00 and 23:30: a session that starts at 23:30 ends
\* after midnight.
NightDates == {2, 3}
NightTimes == {0, 23 * 60 + 30}

\* Public bookings around midnight, served one at a time, and the form's
\* verdict on new candidates.
NightNext ==
    \/ \E pk \in FormProducts, d \in NightDates, t \in NightTimes : Book(pk, Client, d, t)
    \/ \E pk \in FormProducts, d \in NightDates, t \in NightTimes : is_valid(pk, 0, FALSE, d, t)

SpecNight == Init /\ [][NightNext]_vars

\* ==================================================================== claims
\* Vocabulary of the claims, stated without the validator's own operators.
Max(a, b) == IF a > b THEN a ELSE b
Min(a, b) == IF a < b THEN a ELSE b
\* The half-open intervals [s1, e1) and [s2, e2) share a minute.
Meets(s1, e1, s2, e2) == Max(s1, s2) < Min(e1, e2)
Start(b) == b.session_date * DayMinutes + b.session_time
\* The minutes a row blocks: the product's duration (60 without one) for a
\* session, 30 for an admin slot.
Length(b) ==
    IF b.is_admin_slot THEN AdminSlotMinutes
    ELSE IF duration_minutes(b.product) = 0 THEN DefaultDuration
    ELSE duration_minutes(b.product)
RowsMeet(a, b) == Meets(Start(a), Start(a) + Length(a), Start(b), Start(b) + Length(b))
Sessions == {b \in bookings : ~b.is_admin_slot}
AdminSlots == {b \in bookings : b.is_admin_slot}
InShiatsu(b) == LowerName(category(b.product)) = "shiatsu sessions"
OneShiatsuCategory ==
    Cardinality({c \in categories : LowerName(c) = "shiatsu sessions"}) = 1
Done(w) == requests[w].pc = "done"
SameRequest(v, w) ==
    /\ requests[v].product = requests[w].product
    /\ requests[v].session_date = requests[w].session_date
    /\ requests[v].session_time = requests[w].session_time

\* C1: the booking table never holds two rows with the same (product,
\* session_date, session_time, is_admin_slot), whatever the interleaving of
\* public bookings, buffer rows, back-office saves, edits and cancellations.
C1_UniquePerSlot ==
    \A a \in bookings : \A b \in bookings :
        (a.product = b.product /\ a.session_date = b.session_date
         /\ a.session_time = b.session_time /\ a.is_admin_slot = b.is_admin_slot) => a = b

\* Two requests that raced for the same product, date and time have both
\* ended, one redirected and one shown the form again, and the slot holds
\* exactly one session row.
C1_Witness ==
    \E v \in Workers : \E w \in Workers \ {v} :
        /\ Done(v) /\ Done(w) /\ SameRequest(v, w)
        /\ requests[v].raced /\ requests[w].raced
        /\ requests[v].code = 302 /\ requests[w].code = 200
        /\ Cardinality({b \in Sessions : /\ b.product = requests[v].product
                                         /\ b.session_date = requests[v].session_date
                                         /\ b.session_time = requests[v].session_time}) = 1

\* C2 as stated: after public bookings served one at a time, no two sessions
\* of one category on one date intersect.
C2_Original ==
    \A a \in Sessions : \A b \in Sessions \ {a} :
        (category(a.product) = category(b.product) /\ a.session_date = b.session_date)
            => ~RowsMeet(a, b)

\* C2 amended: after public bookings served one at a time, no two sessions of
\* products of the 'Shiatsu Sessions' category on one date intersect.
C2_ShiatsuSessionsDisjoint ==
    \A a \in Sessions : \A b \in Sessions \ {a} :
        (InShiatsu(a) /\ InShiatsu(b) /\ a.session_date = b.session_date)
            => ~RowsMeet(a, b)

\* Two Shiatsu sessions share a date, and the last request was refused for
\* overlapping one of them.
C2_Witness ==
    /\ \E a \in Sessions : \E b \in Sessions \ {a} :
           InShiatsu(a) /\ InShiatsu(b) /\ a.session_date = b.session_date
    /\ last.msg = OverlapMsg

\* C3: no session intersects the 30 minutes of an admin buffer row of the
\* same date (stated for the rows of the 'Shiatsu Sessions' category, the
\* rows the validator reads).
C3_Original ==
    \A a \in Sessions : \A b \in AdminSlots :
        (InShiatsu(a) /\ InShiatsu(b) /\ a.session_date = b.session_date) => ~RowsMeet(a, b)

\* The row a validated request of worker w is about to insert.
Candidate(w) ==
    [product |-> requests[w].product, session_date |-> requests[w].session_date,
     session_time |-> requests[w].session_time, is_admin_slot |-> FALSE]
SlotTaken(w) ==
    \E b \in Sessions : /\ b.product = requests[w].product
                        /\ b.session_date = requests[w].session_date
                        /\ b.session_time = requests[w].session_time
\* A session of the Shiatsu category already intersects the request's interval.
MeetsSession(w) == \E b \in Sessions : InShiatsu(b) /\ RowsMeet(Candidate(w), b)
\* Worker w leaves its save step.
Saves(w) == requests[w].pc = "save" /\ requests'[w].pc # "save"

RowKept(w) == requests[w].code = 302 => \E b \in bookings : b.pk = requests[w].pk

\* C5: two raced requests for the same date and time and two different
\* Shiatsu products leave exactly one booking of the category at that date
\* and time, and at least one of them was shown the form again (read in the
\* states where nothing they created has been cancelled since).
C5_Original ==
    \A v \in Workers : \A w \in Workers \ {v} :
        (/\ Done(v) /\ Done(w)
         /\ RowKept(v) /\ RowKept(w)
         /\ requests[v].raced /\ requests[w].raced
         /\ requests[v].product # requests[w].product
         /\ InShiatsu(Candidate(v)) /\ InShiatsu(Candidate(w))
         /\ is_active(requests[v].product) /\ is_active(requests[w].product)
         /\ requests[v].session_date = requests[w].session_date
         /\ requests[v].session_time = requests[w].session_time)
        => /\ Cardinality({b \in bookings : /\ InShiatsu(b)
                                            /\ b.session_date = requests[v].session_date
                                            /\ b.session_time = requests[v].session_time}) = 1
           /\ (requests[v].code = 200 \/ requests[w].code = 200)

\* C6 as stated: a validated request whose save breaks the uniqueness
\* constraint ends as an unhandled integrity error, not as the form again.
C6_Original ==
    [][\A w \in Workers :
          (Saves(w) /\ SlotTaken(w))
              => (requests'[w].code = 500 /\ requests'[w].msg # AlreadyBookedMsg)]_vars

\* C6 amended: a validated request whose save breaks the uniqueness
\* constraint is shown the form again (HTTP 200) with 'Sorry, this time slot
\* is already booked. Please choose another.', and the table is unchanged.
C6_IntegrityErrorCaught ==
    [][\A w \in Workers :
          (Saves(w) /\ SlotTaken(w))
              => /\ requests'[w].pc = "done"
                 /\ requests'[w].code = 200
                 /\ requests'[w].msg = AlreadyBookedMsg
                 /\ bookings' = bookings]_vars

\* A request that passed validation while another was in flight lost the
\* race for its slot and ended with the form and the already-booked error.
C6_Witness ==
    \E w \in Workers :
        /\ Done(w) /\ requests[w].raced
        /\ requests[w].code = 200 /\ requests[w].msg = AlreadyBookedMsg
        /\ SlotTaken(w)

\* The candidate row of a request for product pk at date d, time t.
Wanted(pk, d, t) ==
    [product |-> pk, session_date |-> d, session_time |-> t, is_admin_slot |-> FALSE]
Today == now \div DayMinutes
\* The request is for a product the public view serves.
Served(pk) == pk \in products /\ is_active(pk)
\* The session starts at least 24 hours from now.
InTime(d, t) == d * DayMinutes + t >= now + 24 * 60
\* A row of the candidate's own category intersects the candidate.
CategoryBusy(pk, d, t) ==
    \E b \in bookings : /\ category(b.product) = category(pk)
                        /\ RowsMeet(Wanted(pk, d, t), b)
\* A session or admin slot of the Shiatsu category, on the candidate's date,
\* intersects the candidate.
ShiatsuBusy(pk, d, t) ==
    \E b \in bookings : /\ InShiatsu(b) /\ b.session_date = d
                        /\ RowsMeet(Wanted(pk, d, t), b)
SessionBusy(pk, d, t) ==
    \E b \in Sessions : /\ InShiatsu(b) /\ b.session_date = d
                        /\ RowsMeet(Wanted(pk, d, t), b)
SameSlotTaken(pk, d, t) ==
    \E b \in Sessions : b.product = pk /\ b.session_date = d /\ b.session_time = t
NewRows == bookings' \ bookings

C8_Original ==
    [][\A pk \in AllProducts : \A d \in Dates : \A t \in Times :
          (/\ Book(pk, Client, d, t) /\ Served(pk) /\ OneShiatsuCategory
           /\ \E b \in Sessions : /\ category(b.product) = category(pk)
                                  /\ b.session_date = d
                                  /\ RowsMeet(Wanted(pk, d, t), b))
              => /\ last'.code = 200 /\ last'.msg = OverlapMsg
                 /\ bookings' = bookings]_vars

\* C8 amended: with exactly one category named 'Shiatsu Sessions', a
\* submission for an active product of that category, starting at least 24
\* hours from now, that intersects a session of that category on its date is
\* refused with the overlap message and the table is unchanged.
C8_OverlapRefused ==
    [][\A pk \in AllProducts : \A d \in Dates : \A t \in Times :
          (/\ Book(pk, Client, d, t) /\ Served(pk) /\ OneShiatsuCategory
           /\ InShiatsu(Wanted(pk, d, t)) /\ InTime(d, t) /\ SessionBusy(pk, d, t))
              => /\ last'.code = 200 /\ last'.msg = OverlapMsg
                 /\ bookings' = bookings]_vars

\* A submission was refused for overlapping the one session in the table.
C8_Witness ==
    /\ last.code = 200 /\ last.msg = OverlapMsg
    /\ Cardinality(Sessions) = 1

\* C9: a submission dated before today is refused with the past-date
\* message, on the booking route (for a product the view serves) and on the
\* edit route (for a booking of the user), and the table is unchanged.
C9_PastDateRefused ==
    [][\A d \in Dates : \A t \in Times :
          d < Today =>
            /\ \A pk \in AllProducts :
                  (Book(pk, Client, d, t) /\ Served(pk))
                      => /\ last'.code = 200 /\ last'.msg = PastDateMsg
                         /\ bookings' = bookings
            /\ \A b \in bookings :
                  (edit_booking(Client, b.pk, d, t) /\ b.user = Client)
                      => /\ last'.code = 200 /\ last'.msg = PastDateMsg
                         /\ bookings' = bookings]_vars

\* A past-dated submission was refused while a day had passed since start
\* and a booking of an earlier day is in the table.
C9_Witness ==
    /\ last.msg = PastDateMsg
    /\ now > StartNow
    /\ \E b \in bookings : b.session_date <= Today

\* C10 as stated: a submission less than 24 hours ahead is refused with the
\* advance-notice message.
C10_Original ==
    [][\A pk \in AllProducts : \A d \in Dates : \A t \in Times :
          (Book(pk, Client, d, t) /\ Served(pk) /\ ~InTime(d, t))
              => last'.code = 200 /\ last'.msg = AdvanceMsg]_vars

\* C10 amended: a submission less than 24 hours ahead never changes the
\* table.  On the booking route, for a product the view serves, it is never
\* redirected; it gets the past-date message when its date is before today
\* and, with exactly one category named 'Shiatsu Sessions', the
\* advance-notice message otherwise.  On the edit route it is shown the form
\* again with the past-date message when its date is before today and with
\* 'Product is required for booking.' otherwise.
C10_ShortNoticeRefused ==
    [][\A d \in Dates : \A t \in Times :
          ~InTime(d, t) =>
            /\ \A pk \in AllProducts :
                  (Book(pk, Client, d, t) /\ Served(pk))
                      => /\ bookings' = bookings
                         /\ last'.code # 302
                         /\ d < Today => (last'.code = 200 /\ last'.msg = PastDateMsg)
                         /\ (d >= Today /\ OneShiatsuCategory)
                                => (last'.code = 200 /\ last'.msg = AdvanceMsg)
            /\ \A b \in bookings :
                  (edit_booking(Client, b.pk, d, t) /\ b.user = Client)
                      => /\ bookings' = bookings
                         /\ last'.code = 200
                         /\ last'.msg = IF d < Today THEN PastDateMsg ELSE ProductRequiredMsg]_vars

\* A submission for tomorrow, less than 24 hours ahead, was refused with the
\* advance-notice message while the table holds a booking.
C10_Witness ==
    /\ last.code = 200 /\ last.msg = AdvanceMsg
    /\ bookings # {}

WithStatus(queryset, status) ==
    {IF b.pk \in queryset THEN [b EXCEPT !.status = status] ELSE b : b \in bookings}
StaffOrSuperuser(principal) == principal.is_staff \/ principal.is_superuser
LastBy(principal) == "user" \in DOMAIN last /\ last.user = principal

\* C12: the approve, reschedule and refund bulk actions change statuses only
\* for a principal that is staff or superuser: for any other principal the
\* table is unchanged and the action ends with a message (no exception); for
\* a staff or superuser principal exactly the selected bookings get the
\* action's target status.
C12_GuardedActions ==
    [][\A principal \in Principals : \A queryset \in Querysets :
          /\ approve_bookings(principal, queryset) =>
                /\ last'.code = 200
                /\ bookings' = IF StaffOrSuperuser(principal)
                                  THEN WithStatus(queryset, "approved") ELSE bookings
          /\ mark_reschedule(principal, queryset) =>
                /\ last'.code = 200
                /\ bookings' = IF StaffOrSuperuser(principal)
                                  THEN WithStatus(queryset, "reschedule") ELSE bookings
          /\ mark_refund(principal, queryset) =>
                /\ last'.code = 200
                /\ bookings' = IF StaffOrSuperuser(principal)
                                  THEN WithStatus(queryset, "refund") ELSE bookings]_vars

\* A booking has been approved, and a principal that is neither staff nor
\* superuser was since turned away from the refund action, the approved
\* booking still approved.
C12_Witness ==
    /\ \E b \in bookings : b.status = "approved"
    /\ LastBy([is_staff |-> FALSE, is_superuser |-> FALSE])
    /\ last.msg = "You do not have permission to refund bookings."

\* C13: the deny bulk action asks for no privilege: for every principal,
\* staff or not, exactly the selected bookings become 'denied'.
C13_DenyUnguarded ==
    [][\A principal \in Principals : \A queryset \in Querysets :
          deny_bookings(principal, queryset) =>
              /\ bookings' = WithStatus(queryset, "denied")
              /\ last'.code = 200]_vars

\* A principal that is neither staff nor superuser has denied every booking
\* of a table of at least two.
C13_Witness ==
    /\ LastBy([is_staff |-> FALSE, is_superuser |-> FALSE])
    /\ last.msg = "booking(s) marked as denied."
    /\ Cardinality(bookings) >= 2
    /\ \A b \in bookings : b.status = "denied"

\* C14: every booking refers to a product and a user that exist, and every
\* product to a category that exists, whatever products, users and
\* categories have been deleted: deleting a row deletes the rows that refer
\* to it.
C14_ReferencesExist ==
    /\ \A b \in bookings : b.product \in products /\ b.user \in users
    /\ \A p \in products : category(p) \in categories

\* A user and a product whose category still exists have been deleted,
\* bookings were deleted with them (more keys were handed out than rows
\* remain) and bookings of the remaining user and products are still there.
C14_Witness ==
    /\ users # Users
    /\ \E p \in AllProducts : p \notin products /\ category(p) \in categories
    /\ bookings # {}
    /\ nextPk > Cardinality(bookings) + 1

\* The row b is in the table with its product, user, date, time and kind.
Persists(b, bk) ==
    \E c \in bk : /\ c.pk = b.pk /\ c.product = b.product /\ c.user = b.user
                  /\ c.session_date = b.session_date /\ c.session_time = b.session_time
                  /\ c.is_admin_slot = b.is_admin_slot /\ c.status = b.status
\* Worker w leaves the post-save hook of the row it inserted.
Synced(w) == requests[w].pc = "signal" /\ requests'[w].pc # "signal"

\* C15: whatever the calendar does during the post-save hook of a public
\* booking (no credentials, a failed insert, a buffer row the table
\* refuses), the request ends with the redirect and every row of the table,
\* the one just saved included, stays.
C15_CalendarFailureSwallowed ==
    [][\A w \in Workers :
          Synced(w) => /\ requests'[w].pc = "done"
                       /\ requests'[w].code = 302
                       /\ \A b \in bookings : Persists(b, bookings')]_vars

\* A redirected request whose row is kept with its event ids, while the
\* buffer row behind it is an older one (of lower key): the write of its own
\* buffer row was refused by the table.
C15_Witness ==
    \E w \in Workers : \E b \in Sessions : \E a \in AdminSlots :
        /\ Done(w) /\ requests[w].code = 302 /\ b.pk = requests[w].pk
        /\ b.admin_calendar_event_id # 0
        /\ a.product = b.product /\ Start(a) = Start(b) + Length(b)
        /\ a.pk < b.pk

\* The keys of the rows a step adds to the table.
NewKeys == {c.pk : c \in bookings'} \ {c.pk : c \in bookings}

\* C16 as stated: a back-office save of a booking that already exists adds
\* no row, and the save of a new admin-slot booking adds that row only.
C16_Original ==
    [][/\ \A b \in bookings : \A d \in RaceDates : \A t \in AccountTimes :
              AdminChange(b, d, t) => NewKeys = {}
       /\ \A pk \in BackOfficeProducts : \A d \in RaceDates : \A t \in AccountTimes :
              AdminAdd(pk, d, t, TRUE) => NewKeys \subseteq {nextPk}]_vars

\* C16 amended: a back-office save of an existing booking that is an admin
\* slot, or that already has its calendar event id, adds no row; the save of
\* a new admin-slot booking adds that row only.  (A later save of a session
\* that has no calendar event id runs create_event again and may add a
\* buffer row.)
C16_BufferOnlyWithoutEvent ==
    [][/\ \A b \in bookings : \A d \in RaceDates : \A t \in AccountTimes :
              ((b.is_admin_slot \/ b.google_calendar_event_id # 0) /\ AdminChange(b, d, t))
                  => NewKeys = {}
       /\ \A pk \in BackOfficeProducts : \A d \in RaceDates : \A t \in AccountTimes :
              AdminAdd(pk, d, t, TRUE) =>
                  /\ NewKeys \subseteq {nextPk}
                  /\ \A c \in bookings' : c.pk \in NewKeys =>
                        (c.is_admin_slot /\ c.session_date = d /\ c.session_time = t)]_vars

\* A back-office change of an existing row has added no buffer: a session
\* with its calendar event and the buffer row written at its creation (the
\* next key) now both start at 15:00, and no buffer row sits behind the
\* session.
C16_Witness ==
    /\ last.code = 302
    /\ \E b \in Sessions : \E a \in AdminSlots :
          /\ b.google_calendar_event_id # 0 /\ b.session_time = 15 * 60
          /\ a.pk = b.pk + 1 /\ a.product = b.product /\ Start(a) = Start(b)
          /\ ~\E c \in AdminSlots : c.product = b.product /\ Start(c) = Start(b) + Length(b)

\* C17: a logged-in user who asks for the confirmation, edit or cancel route
\* of a booking that belongs to another user gets 404, by GET or by POST,
\* and the table is unchanged.
C17_NotOwner404 ==
    [][\A u \in Users : \A b \in bookings :
          b.user # u =>
            /\ booking_confirmation(u, b.pk) => (last'.code = 404 /\ bookings' = bookings)
            /\ edit_booking_form(u, b.pk) => (last'.code = 404 /\ bookings' = bookings)
            /\ cancel_booking_page(u, b.pk) => (last'.code = 404 /\ bookings' = bookings)
            /\ cancel_booking(u, b.pk) => (last'.code = 404 /\ bookings' = bookings)
            /\ \A d \in RaceDates : \A t \in BackOfficeTimes :
                  edit_booking(u, b.pk, d, t) => (last'.code = 404 /\ bookings' = bookings)]_vars

\* Every key the requests can name is a booking in the table, both users
\* own one, and the last request got 404: it named a booking of the other
\* user.
C17_Witness ==
    /\ last.code = 404
    /\ \A pk \in 1..MaxPk : \E b \in bookings : b.pk = pk
    /\ \A u \in Users : \E b \in bookings : b.user = u

\* The submission has one of the defects validation looks for: a past date,
\* less than 24 hours of notice, or a session or admin slot of the Shiatsu
\* category in its way.
Defective(pk, d, t) == d < Today \/ ~InTime(d, t) \/ ShiatsuBusy(pk, d, t)
AtMostOneShiatsuCategory ==
    Cardinality({c \in categories : LowerName(c) = "shiatsu sessions"}) <= 1
\* The step is answered with HTTP 200 and one of the messages, and leaves
\* the table as it was.
Refused(msgs) ==
    /\ last'.code = 200 /\ last'.msg \in msgs
    /\ bookings' = bookings /\ nextPk' = nextPk

Held(self, pk, d, t, admin) ==
    \E o \in bookings : /\ o.pk # self /\ o.product = pk /\ o.session_date = d
                        /\ o.session_time = t /\ o.is_admin_slot = admin

AnySessionBusy(pk, d, t) ==
    \E b \in Sessions : b.session_date = d /\ RowsMeet(Wanted(pk, d, t), b)
\* An admin row of any product, on the candidate's date, intersects it.
AnyBufferBusy(pk, d, t) ==
    \E a \in AdminSlots : a.session_date = d /\ RowsMeet(Wanted(pk, d, t), a)
\* An admin row of a Shiatsu product, on the candidate's date, intersects it.
ShiatsuBufferBusy(pk, d, t) ==
    \E a \in AdminSlots : InShiatsu(a) /\ a.session_date = d /\ RowsMeet(Wanted(pk, d, t), a)

\* C20 as stated: a candidate at least 24 hours ahead that intersects no
\* session is refused with the admin-slot message, the table unchanged, when
\* it intersects an admin buffer row of its date, and accepted when it
\* intersects none (read for the products the view serves, with the seeded
\* catalogue).
C20_Original ==
    [][\A pk \in BufferProducts : \A d \in RaceDates : \A t \in BufferTimes :
          (/\ Served(pk) /\ OneShiatsuCategory
           /\ InTime(d, t) /\ ~AnySessionBusy(pk, d, t) /\ Book(pk, Client, d, t))
              => IF AnyBufferBusy(pk, d, t)
                    THEN /\ last'.code = 200 /\ last'.msg = AdminConflictMsg
                         /\ bookings' = bookings
                    ELSE last'.code = 302]_vars

\* C20 amended: with exactly one category named 'Shiatsu Sessions', a
\* candidate for a product the view serves, at least 24 hours ahead, that
\* intersects no session of a Shiatsu product on its date, is refused with
\* the admin-slot message, the table unchanged, when it intersects the 30
\* minutes of an admin row of a Shiatsu product on its date; when it
\* intersects none, and no session holds its (product, date, time), it is
\* redirected and its session row is created.
C20_AdminSlotRefused ==
    [][\A pk \in BufferProducts : \A d \in RaceDates : \A t \in BufferTimes :
          (/\ Served(pk) /\ OneShiatsuCategory
           /\ InTime(d, t) /\ ~SessionBusy(pk, d, t) /\ Book(pk, Client, d, t))
              => IF ShiatsuBufferBusy(pk, d, t)
                    THEN /\ last'.code = 200 /\ last'.msg = AdminConflictMsg
                         /\ bookings' = bookings
                    ELSE ~SameSlotTaken(pk, d, t) =>
                           /\ last'.code = 302
                           /\ \E b \in NewRows : /\ ~b.is_admin_slot /\ b.product = pk
                                                 /\ b.session_date = d /\ b.session_time = t]_vars

\* A submission was refused for meeting the buffer behind the one session of
\* the table, a Shiatsu session.
C20_Witness ==
    /\ last.code = 200 /\ last.msg = AdminConflictMsg
    /\ Cardinality(Sessions) = 1 /\ Cardinality(AdminSlots) = 1
    /\ \E b \in Sessions : \E a \in AdminSlots :
          InShiatsu(b) /\ a.product = b.product /\ Start(a) = Start(b) + Length(b)

\* The row b with the posted date and time.
Moved(b, d, t) == [b EXCEPT !.session_date = d, !.session_time = t]
\* No row other than b, on date d, intersects b moved to date d and time t.
FreeFor(b, d, t) ==
    ~\E o \in bookings \ {b} : o.session_date = d /\ RowsMeet(Moved(b, d, t), o)

\* C21: when the owner of a booking posts the edit route with a date and
\* time at least 24 hours ahead that meet no other booking, the request is
\* redirected and the booking has the posted date and time.
C21_Original ==
    [][\A b \in bookings : \A d \in Dates : \A t \in Times :
          (/\ b.user = Client /\ ~b.is_admin_slot /\ OneShiatsuCategory
           /\ InTime(d, t) /\ FreeFor(b, d, t)
           /\ edit_booking(Client, b.pk, d, t))
              => /\ last'.code = 302
                 /\ \E c \in bookings' : /\ c.pk = b.pk /\ c.session_date = d
                                         /\ c.session_time = t]_vars

\* C22: the save of an admin-slot row, new or changed, writes that row and
\* nothing else (no other row appears or changes, and the row gets no
\* calendar event id); and the save of a new session, with everything its
\* post-save hook sets off, adds at most one admin-slot row beside the
\* session row.
C22_AdminSlotSaveWritesNothing ==
    [][\A d \in RaceDates : \A t \in AccountTimes :
          /\ \A pk \in BackOfficeProducts :
                /\ AdminAdd(pk, d, t, TRUE) =>
                      /\ bookings' \subseteq bookings \cup {Booking(nextPk, pk, Client, d, t, TRUE)}
                      /\ bookings \subseteq bookings'
                /\ AdminAdd(pk, d, t, FALSE) =>
                      /\ Cardinality({c \in NewRows : c.is_admin_slot}) <= 1
                      /\ Cardinality({c \in NewRows : ~c.is_admin_slot}) <= 1
                      /\ \A c \in bookings : \E e \in bookings' : e.pk = c.pk
          /\ \A b \in AdminSlots :
                AdminChange(b, d, t) =>
                    bookings' \in {bookings, (bookings \ {b}) \cup {Moved(b, d, t)}}]_vars

\* The back-office has added an admin slot that follows no session, next to
\* a session with its calendar event and the buffer row behind it; no admin
\* slot has an event id.
C22_Witness ==
    /\ last.code = 302
    /\ \E b \in Sessions : \E a \in AdminSlots :
          /\ b.google_calendar_event_id # 0
          /\ a.product = b.product /\ Start(a) = Start(b) + Length(b)
    /\ \E a \in AdminSlots : ~\E b \in Sessions : Start(a) = Start(b) + Length(b)
    /\ \A a \in AdminSlots : a.google_calendar_event_id = 0 /\ a.admin_calendar_event_id = 0

\* The fixed 30 minutes [start, start + 30min) of a candidate at date d and
\* time t intersect a session of the Shiatsu category on date d.
HalfHourBusy(d, t) ==
    \E b \in Sessions :
        /\ InShiatsu(b) /\ b.session_date = d
        /\ Meets(d * DayMinutes + t, d * DayMinutes + t + AdminSlotMinutes,
                 Start(b), Start(b) + Length(b))
SessionConflictMsgs == {OverlapMsg, AdminSlotSessionMsg}

\* C23: a candidate flagged as an admin slot, at least 24 hours ahead, is
\* refused for a conflict with a session exactly when its 30 minutes
\* intersect a session of the Shiatsu category on its date, whatever the
\* duration of its product (read with exactly one category named 'Shiatsu
\* Sessions').
C23_Original ==
    [][\A pk \in FormProducts : \A inst_pk \in 0..MaxPk :
          \A d \in RaceDates : \A t \in BufferTimes :
              (/\ OneShiatsuCategory /\ InTime(d, t)
               /\ is_valid(pk, inst_pk, TRUE, d, t))
                  => (last'.msg \in SessionConflictMsgs <=> HalfHourBusy(d, t))]_vars

\* The step keeps the rows of the table, gives the selected ones the status
\* and changes nothing else of any row.
Retargeted(queryset, status) ==
    /\ {c.pk : c \in bookings'} = {b.pk : b \in bookings}
    /\ \A b \in bookings : \A c \in bookings' :
          c.pk = b.pk =>
              c = [b EXCEPT !.status = IF b.pk \in queryset THEN status ELSE b.status]

\* C24: each bulk action that is allowed to run (deny always, the others
\* for a staff or superuser principal) gives every selected booking its
\* target status whatever status the booking had, and leaves every other
\* booking as it was.
C24_UnguardedTransitions ==
    [][\A principal \in Principals : \A queryset \in Querysets :
          /\ deny_bookings(principal, queryset) => Retargeted(queryset, "denied")
          /\ StaffOrSuperuser(principal) =>
                /\ approve_bookings(principal, queryset) => Retargeted(queryset, "approved")
                /\ mark_reschedule(principal, queryset) => Retargeted(queryset, "reschedule")
                /\ mark_refund(principal, queryset) => Retargeted(queryset, "refund")]_vars

\* A selection has been approved while a booking outside it stays refunded
\* (approved and refunded are both reached only from another status).
C24_Witness ==
    /\ "user" \in DOMAIN last /\ last.msg = "booking(s) marked as approved."
    /\ \E a \in bookings : \E b \in bookings :
          a.status = "approved" /\ b.status = "refunded"

\* C25: after public bookings and cancellations, every admin-slot row starts
\* where a session of its product that is in the table ends.
C25_Original ==
    \A a \in AdminSlots : \E b \in Sessions :
        a.product = b.product /\ Start(a) = Start(b) + Length(b)

\* The rows of the table whose session_date is d.
OnDate(d) == {b \in bookings : b.session_date = d}

\* C26: the verdict of the form on a candidate is the verdict it gives when
\* the table holds the rows of the candidate's date only: rows of other
\* dates, a session that runs past midnight into the candidate included,
\* never change it; and the public view accepts or refuses accordingly.
C26_OtherDatesIgnored ==
    [][\A pk \in FormProducts : \A d \in NightDates : \A t \in NightTimes :
          /\ is_valid(pk, 0, FALSE, d, t) =>
                last'.msg = form_errors(OnDate(d), categories, products, now, pk, d, t, 0, FALSE)
          /\ (Served(pk) /\ Book(pk, Client, d, t)) =>
                (last'.code = 302 <=>
                    /\ form_errors(OnDate(d), categories, products, now, pk, d, t, 0, FALSE) = Valid
                    /\ ~SameSlotTaken(pk, d, t))]_vars

\* A session at 00:00 was accepted although a session of the day before,
\* started at 23:30, runs into it.
C26_Witness ==
    /\ last.code = 302
    /\ \E a \in Sessions : \E c \in Sessions :
          /\ InShiatsu(a) /\ InShiatsu(c)
          /\ c.session_date = a.session_date + 1 /\ c.session_time = 0
          /\ RowsMeet(a, c)

\* What the post_save hook of the row worker w has inserted does when the
\* calendar answers with cal.
Hook(w, cal) ==
    create_or_update_calendar_event(
        bookings, nextPk,
        Booking(requests[w].pk, requests[w].product, requests[w].user,
                requests[w].session_date, requests[w].session_time, FALSE),
        TRUE, cal)
Summaries(events) == {e.summary : e \in events}

\* C27: when the calendar cannot be authenticated, the post-save hook of a
\* new session inserts no event and leaves the table as it is (no admin-slot
\* row, no event id on the booking); and whenever the hook adds an admin-slot
\* row, it has inserted both the session event and the admin event.
C27_NoRowWithoutEvents ==
    [][\A w \in Workers : \A cal \in CalendarOutcomes :
          Signal(w, cal) =>
              /\ cal = "no_credentials" =>
                    (Hook(w, cal).events = {} /\ bookings' = bookings)
              /\ (\E c \in NewRows : c.is_admin_slot) =>
                    Summaries(Hook(w, cal).events) = {"Shiatsu Session", "Admin"}]_vars

\* Two redirected requests: the session of one has no event id and no admin
\* slot behind it, the session of the other has its event ids and its admin
\* slot.
C27_Witness ==
    \E v \in Workers : \E w \in Workers \ {v} :
        /\ Done(v) /\ Done(w) /\ requests[v].code = 302 /\ requests[w].code = 302
        /\ \E b \in Sessions :
              /\ b.pk = requests[v].pk
              /\ b.google_calendar_event_id = 0 /\ b.admin_calendar_event_id = 0
              /\ ~\E a \in AdminSlots : Start(a) = Start(b) + Length(b)
        /\ \E b \in Sessions : \E a \in AdminSlots :
              /\ b.pk = requests[w].pk
              /\ b.google_calendar_event_id # 0 /\ b.admin_calendar_event_id # 0
              /\ a.product = b.product /\ Start(a) = Start(b) + Length(b)

\* C28: every event the post-save hook of a new session inserts in the
\* external calendar has its id stored on the booking row when the hook
\* ends.
C28_Original ==
    [][\A w \in Workers : \A cal \in CalendarOutcomes :
          Signal(w, cal) =>
              \A e \in Hook(w, cal).events :
                  \E b \in bookings' :
                      /\ b.pk = requests[w].pk
                      /\ e.id \in {b.google_calendar_event_id, b.admin_calendar_event_id}]_vars

NoShiatsuCategory == \A c \in categories : LowerName(c) # "shiatsu sessions"

\* C29: for a product the public view serves, whatever its category: with
\* exactly one category named 'Shiatsu Sessions', a submission at least 24
\* hours ahead is refused for an overlap exactly when it intersects a
\* session or admin slot of a product of that category on its date (rows of
\* other categories are not looked at); with no category of that name,
\* every submission is answered with a validation error (the past-date or
\* the missing-category message) and the table is unchanged.
C29_ScanScopedToShiatsu ==
    [][\A pk \in AllProducts : \A d \in Dates : \A t \in Times :
          /\ (Served(pk) /\ OneShiatsuCategory /\ InTime(d, t) /\ Book(pk, Client, d, t))
                => (last'.msg \in {OverlapMsg, AdminConflictMsg} <=> ShiatsuBusy(pk, d, t))
          /\ (Served(pk) /\ NoShiatsuCategory /\ Book(pk, Client, d, t))
                => /\ last'.code = 200
                   /\ last'.msg = IF d < Today THEN PastDateMsg ELSE NoCategoryMsg
                   /\ bookings' = bookings]_vars

\* A Shiatsu session was accepted over a gift-voucher booking made before
\* it: the two intersect.
C29_Witness ==
    /\ last.code = 302
    /\ \E v \in Sessions : \E b \in Sessions :
          /\ ~InShiatsu(v) /\ InShiatsu(b) /\ v.pk < b.pk
          /\ RowsMeet(v, b)

\* Every row the step leaves in the table has the status it had, and every
\* row the step adds is pending.
StatusKept ==
    \A c \in bookings' :
        IF \E b \in bookings : b.pk = c.pk
           THEN \A b \in bookings : b.pk = c.pk => c.status = b.status
           ELSE c.status = "pending"

\* C30: the save of a public booking, its post-save hook (the event-id
\* writes and the buffer row) and the edit route change the status of no
\* existing booking and write new rows as 'pending', also when a bulk status
\* action has run between the save and the hook.
C30_StatusOnlyByAdmin ==
    [][/\ \A w \in Workers :
             (Save(w) \/ \E cal \in CalendarOutcomes : Signal(w, cal)) => StatusKept
       /\ \A b \in bookings : \A d \in RaceDates : \A t \in AccountTimes :
             edit_booking(Client, b.pk, d, t) => StatusKept]_vars

\* A booking approved between its save and its hook has ended with its
\* event ids, still approved, its buffer row pending; and another booking
\* was approved after its save and waits for its hook.
C30_Witness ==
    \E v \in Workers : \E w \in Workers \ {v} :
        /\ Done(v) /\ requests[v].code = 302
        /\ \E b \in Sessions : \E a \in AdminSlots :
              /\ b.pk = requests[v].pk /\ b.status = "approved"
              /\ b.google_calendar_event_id # 0
              /\ a.product = b.product /\ Start(a) = Start(b) + Length(b)
              /\ a.status = "pending"
        /\ requests[w].pc = "signal"
        /\ \E b \in Sessions : b.pk = requests[w].pk /\ b.status = "approved"

====
